---- MODULE Spec2Model ----
(***************************************************************************)
(* enum-pipeline: the three execution traits with their blanket            *)
(* implementations over IntoIterator (src/src/lib.rs) and the derive       *)
(* macros that generate the dispatching match (src/derive/src/impls.rs).   *)
(*                                                                         *)
(* Two specifications share the variables:                                 *)
(*   SpecRun  a pipeline (an ordered collection of enum values) executed   *)
(*            through one of the blanket implementations;                  *)
(*   SpecGen  one derive macro applied to one derive input, followed by    *)
(*            values consumed through the generated implementation.        *)
(***************************************************************************)
EXTENDS Integers, Sequences, FiniteSets, TLC

VARIABLES
    \* ---- run time (src/src/lib.rs)
    family,     \* which element type the pipeline holds
    pipeline,   \* the collection handed to execute / execute_with / execute_with_mut
    iter,       \* the iterator's remaining items
    heap,       \* address -> value of the object living there
    argp,       \* the reference handed to execute_with / execute_with_mut (0: none)
    statics,    \* the static mut counters of the tests
    log,        \* handler invocations so far, in the order they happened
    rpc,        \* position of the blanket implementation
    \* ---- build time (src/derive/src/impls.rs)
    input,      \* the DeriveInput
    gst,        \* "idle" | "generated" | "panicked" | "consumed"
    opts,       \* the Opts the macro ran base_derive_macro with
    output,     \* the emitted impl
    diag,       \* the panic message
    calls       \* handler calls made by values consumed through the emitted impl

vars == <<family, pipeline, iter, heap, argp, statics, log, rpc,
          input, gst, opts, output, diag, calls>>

runVars == <<family, pipeline, iter, heap, argp, statics, log, rpc>>
genVars == <<input, gst, opts, output, diag, calls>>

(***************************************************************************)
(* Bounds                                                                  *)
(***************************************************************************)
MaxLen == 3        \* longest pipeline
MaxVariants == 2   \* most variants of a derive input
MaxFields == 2     \* most fields of a variant

(***************************************************************************)
(* Generic helpers                                                         *)
(***************************************************************************)
SeqsUpTo(S, n) == UNION { [1..k -> S] : k \in 0..n }

RECURSIVE Reverse(_)
Reverse(s) == IF s = <<>> THEN <<>> ELSE Append(Reverse(Tail(s)), Head(s))

(***************************************************************************)
(* RUN TIME                                                                *)
(***************************************************************************)
Addrs == {1, 2}

\* The argument objects of the tests and doc examples, as one record type:
\* RefDataPipelineData.mult, the RefCell<String> of the ExecuteWith example,
\* the accumulator of the ExecuteWithMut example.
Arg0 == [mult |-> 2, str |-> <<>>, acc |-> 0]
Statics0 == [one |-> 0, two |-> 0]

Families == {"Void", "RefData", "CellOps", "MutOps"}

Item(v, f) == [v |-> v, f |-> f]

Items(fam) ==
    CASE fam = "Void"    -> {Item("One", <<>>), Item("Two", <<>>)}
      [] fam = "RefData" -> {Item("One", <<12>>), Item("One", <<24>>), Item("Two", <<>>)}
      [] OTHER           -> {Item("Allocate", <<1, 1>>), Item("Init", <<>>), Item("Run", <<1>>)}

\* Result of one item's execution: the handler that ran and the state it left.
Ran(h, hp, st) == [h |-> h, heap |-> hp, statics |-> st]

\* impl Execute for VoidDispatchPipeline (derived): handle_one / handle_two
VoidExecute(item, hp, st) ==
    IF item.v = "One"
    THEN Ran("handle_one", hp, [st EXCEPT !.one = @ + 1])
    ELSE Ran("handle_two", hp, [st EXCEPT !.two = @ + 1])

\* impl ExecuteWith<RefDataPipelineData> for RefDataPipeline
RefDataExecuteWith(item, ref, hp, st) ==
    IF item.v = "One"
    THEN Ran("handle_one", hp, [st EXCEPT !.one = @ + item.f[1] * hp[ref].mult])
    ELSE Ran("handle_two", hp, [st EXCEPT !.two = @ + 1])

\* impl ExecuteWith<RefCell<String>> for Operations (doc example)
CellOpsExecuteWith(item, ref, hp, st) ==
    CASE item.v = "Allocate" ->
            Ran("alloc", [hp EXCEPT ![ref].str = Append(@, "[alloc]")], st)
      [] item.v = "Init" ->
            Ran("init", [hp EXCEPT ![ref].str = Append(@, "[init]")], st)
      [] OTHER ->
            Ran("run", [hp EXCEPT ![ref].str = Append(@, "[run]")], st)

\* impl ExecuteWithMut<T> for Operations (doc example)
MutOpsExecuteWithMut(item, ref, hp, st) ==
    CASE item.v = "Allocate" -> Ran("alloc", [hp EXCEPT ![ref].acc = @ + 2], st)
      [] item.v = "Init"     -> Ran("init",  [hp EXCEPT ![ref].acc = @ + 3], st)
      [] OTHER               -> Ran("run",   [hp EXCEPT ![ref].acc = @ + 5], st)

\* T::Item's execute_with for the two ExecuteWith element types
ItemExecuteWith(item, ref, hp, st) ==
    IF family = "RefData"
    THEN RefDataExecuteWith(item, ref, hp, st)
    ELSE CellOpsExecuteWith(item, ref, hp, st)

\* a faulty into_iter: the items taken back to front
IntoIterRev(coll) == Reverse(coll)

\* self.into_iter() of a Vec: front to back
IntoIter(coll) == coll

\* Iterator::for_each takes the next item
NextItem(it) == Head(it)

\* a faulty closure: it hands out a reference to another object
ClosureArgOther(ref) == 3 - ref

\* the reference the closure of execute_with hands to each item
ClosureArg(ref) == ref

\* a faulty closure: it hands out a reference to a copy
ClosureArgMutCopy(ref) == 3 - ref

\* the reference the closure of execute_with_mut hands to each item
ClosureArgMut(ref) == ref

Entry(item, h, ref, seen) == [item |-> item, h |-> h, ref |-> ref, seen |-> seen]

InitRun ==
    /\ family \in Families
    /\ pipeline \in SeqsUpTo(Items(family), MaxLen)
    /\ iter = <<>>
    /\ heap = [a \in Addrs |-> Arg0]
    /\ argp \in (IF family = "Void" THEN {0} ELSE Addrs)
    /\ statics = Statics0
    /\ log = <<>>
    /\ rpc = "idle"
    \* no derive running
    /\ input = [data |-> "struct", ident |-> <<"E", 0>>, attrs |-> <<>>, variants |-> <<>>]
    /\ gst = "off"
    /\ opts = "none"
    /\ output = <<>>
    /\ diag = <<>>
    /\ calls = <<>>


\* impl<T> Execute for T: self.into_iter()
ExecuteBegin ==
    /\ rpc = "idle" /\ family = "Void"
    /\ iter' = IntoIter(pipeline)
    /\ rpc' = "for_each"
    /\ UNCHANGED <<family, pipeline, heap, argp, statics, log>>
    /\ UNCHANGED genVars

\* impl<T> Execute for T: for_each(move |item| item.execute())
ExecuteForEach ==
    /\ rpc = "for_each" /\ family = "Void" /\ iter # <<>>
    /\ LET item == NextItem(iter)
           r == VoidExecute(item, heap, statics)
       IN /\ heap' = r.heap
          /\ statics' = r.statics
          /\ log' = Append(log, Entry(item, r.h, 0, Arg0))
    /\ iter' = Tail(iter)
    /\ UNCHANGED <<family, pipeline, argp, rpc>>
    /\ UNCHANGED genVars

\* impl<T, TArg> ExecuteWith<TArg> for T: self.into_iter()
ExecuteWithBegin ==
    /\ rpc = "idle" /\ family \in {"RefData", "CellOps"}
    /\ iter' = IntoIter(pipeline)
    /\ rpc' = "for_each"
    /\ UNCHANGED <<family, pipeline, heap, argp, statics, log>>
    /\ UNCHANGED genVars

\* impl<T, TArg> ExecuteWith<TArg> for T: for_each(move |item| item.execute_with(arg))
ExecuteWithForEach ==
    /\ rpc = "for_each" /\ family \in {"RefData", "CellOps"} /\ iter # <<>>
    /\ LET item == NextItem(iter)
           ref == ClosureArg(argp)
           r == ItemExecuteWith(item, ref, heap, statics)
       IN /\ heap' = r.heap
          /\ statics' = r.statics
          /\ log' = Append(log, Entry(item, r.h, ref, heap[ref]))
    /\ iter' = Tail(iter)
    /\ UNCHANGED <<family, pipeline, argp, rpc>>
    /\ UNCHANGED genVars

\* impl<T, TArg> ExecuteWithMut<TArg> for T: self.into_iter()
ExecuteWithMutBegin ==
    /\ rpc = "idle" /\ family = "MutOps"
    /\ iter' = IntoIter(pipeline)
    /\ rpc' = "for_each"
    /\ UNCHANGED <<family, pipeline, heap, argp, statics, log>>
    /\ UNCHANGED genVars

\* impl<T, TArg> ExecuteWithMut<TArg> for T: for_each(move |item| item.execute_with_mut(arg))
ExecuteWithMutForEach ==
    /\ rpc = "for_each" /\ family = "MutOps" /\ iter # <<>>
    /\ LET item == NextItem(iter)
           ref == ClosureArgMut(argp)
           r == MutOpsExecuteWithMut(item, ref, heap, statics)
       IN /\ heap' = r.heap
          /\ statics' = r.statics
          /\ log' = Append(log, Entry(item, r.h, ref, heap[ref]))
    /\ iter' = Tail(iter)
    /\ UNCHANGED <<family, pipeline, argp, rpc>>
    /\ UNCHANGED genVars

\* for_each returns when the iterator is exhausted
ForEachEnd ==
    /\ rpc = "for_each" /\ iter = <<>>
    /\ rpc' = "done"
    /\ UNCHANGED <<family, pipeline, iter, heap, argp, statics, log>>
    /\ UNCHANGED genVars

NextRun ==
    \/ ExecuteBegin
    \/ ExecuteForEach
    \/ ExecuteWithBegin
    \/ ExecuteWithForEach
    \/ ExecuteWithMutBegin
    \/ ExecuteWithMutForEach
    \/ ForEachEnd

SpecRun == InitRun /\ [][NextRun]_vars

(***************************************************************************)
(* BUILD TIME: the derive macros                                           *)
(***************************************************************************)
\* Text is modelled as a sequence of tokens, a token as <<spelling, number>>:
\* the identifier h2 is <<"h", 2>>, format!("__{}", 3) is <<"__", 3>>.
Tok(s) == <<s, 0>>
Id(s, n) == <<s, n>>

ColonColon == Tok("::")
Comma == Tok(",")
LParen == Tok("(")
RParen == Tok(")")
FatArrow == Tok("=>")
Punct == {ColonColon, Comma, LParen, RParen, FatArrow}
IsIdent(t) == t \notin Punct

HANDLER_ATTR_NAME == "handler"
ARG_ATTR_NAME == "execute_with"

\* enum Opts
OptsNone == [kind |-> "None", ident |-> <<>>]
RefParam(ident) == [kind |-> "RefParam", ident |-> ident]
RefMutParam(ident) == [kind |-> "RefMutParam", ident |-> ident]

\* ---- derive inputs -------------------------------------------------------
Attr(path, payload) == [path |-> path, tokens |-> <<LParen>> \o payload \o <<RParen>>]
Field(named, ident) == [named |-> named, ident |-> ident]
EnumIdent == Tok("E")
VariantIdent(i) == Id("V", i)

\* attribute lists with exactly one handler attribute whose text is a path
GoodAttrs(i) ==
    { <<Attr("handler", <<Id("h", i)>>)>>,
      <<Attr("doc", <<Tok("text")>>), Attr("handler", <<Tok("m"), ColonColon, Id("g", i)>>)>> }

\* no handler attribute, one with an empty text, two handler attributes
BadAttrs(i) ==
    { <<>>,
      <<Attr("handler", <<>>)>>,
      <<Attr("handler", <<Id("h", i)>>), Attr("handler", <<Id("k", i)>>)>> }

TupleFields(n) == [j \in 1..n |-> Field(FALSE, <<>>)]
StructFields(n) == [j \in 1..n |-> Field(TRUE, Id("f", j))]

\* unit, tuple and struct variants
VariantFields ==
    {<<>>}
    \cup { TupleFields(n) : n \in 1..MaxFields }
    \cup { StructFields(n) : n \in 1..MaxFields }

Variants(i) ==
    { [ident |-> VariantIdent(i), attrs |-> a, fields |-> f] :
        a \in GoodAttrs(i), f \in VariantFields }
    \cup
    { [ident |-> VariantIdent(i), attrs |-> a, fields |-> f] :
        a \in BadAttrs(i), f \in {<<>>, TupleFields(MaxFields)} }

EnumAttrs ==
    { <<>>,
      <<Attr("execute_with", <<Tok("Data")>>)>>,
      <<Attr("execute_with", <<Tok("m"), ColonColon, Tok("Data")>>)>>,
      <<Attr("execute_with", <<>>)>>,
      <<Attr("execute_with", <<Tok("Data")>>), Attr("execute_with", <<Tok("Other")>>)>> }

RECURSIVE VariantListsOfLen(_)
VariantListsOfLen(n) ==
    IF n = 0 THEN {<<>>}
    ELSE { Append(vs, v) : vs \in VariantListsOfLen(n - 1), v \in Variants(n) }

VariantLists == UNION { VariantListsOfLen(n) : n \in 0..MaxVariants }

DeriveInputs ==
    { [data |-> "enum", ident |-> EnumIdent, attrs |-> a, variants |-> vs] :
        a \in EnumAttrs, vs \in VariantLists }
    \cup
    { [data |-> "struct", ident |-> EnumIdent, attrs |-> a, variants |-> <<>>] :
        a \in EnumAttrs }

\* ---- results --------------------------------------------------------------
\* (panic messages are written without the back quotes around {})
Ok(v) == [ok |-> TRUE, val |-> <<v>>, msg |-> <<>>]
Panic(text, name) == [ok |-> FALSE, val |-> <<>>, msg |-> <<[text |-> text, name |-> name]>>]

\* ---- text helpers ---------------------------------------------------------
Contains(ts, t) == \E i \in 1..Len(ts) : ts[i] = t

\* [String]::join(","): the pieces with a comma between neighbours
RECURSIVE Join(_)
Join(pieces) ==
    IF pieces = <<>> THEN <<>>
    ELSE IF Len(pieces) = 1 THEN pieces[1]
    ELSE pieces[1] \o <<Comma>> \o Join(Tail(pieces))

\* the pieces of a token sequence between its commas
RECURSIVE SplitComma(_)
SplitComma(ts) ==
    IF ~Contains(ts, Comma) THEN <<ts>>
    ELSE LET k == CHOOSE i \in 1..Len(ts) :
                      ts[i] = Comma /\ \A j \in 1..(i - 1) : ts[j] # Comma
         IN <<SubSeq(ts, 1, k - 1)>> \o SplitComma(SubSeq(ts, k + 1, Len(ts)))

\* length of the path ident(::ident)* ts starts with, 0 when it starts with none
RECURSIVE PathLen(_)
PathLen(ts) ==
    IF ts = <<>> \/ ~IsIdent(ts[1]) THEN 0
    ELSE IF Len(ts) >= 2 /\ ts[2] = ColonColon
         THEN LET r == PathLen(SubSeq(ts, 3, Len(ts)))
              IN IF r = 0 THEN 0 ELSE 2 + r
         ELSE 1

IsPath(ts) == ts # <<>> /\ PathLen(ts) = Len(ts)

\* a parenthesised, comma separated list of paths; a trailing comma is allowed
ParseParenList(ts) ==
    IF Len(ts) < 2 \/ ts[1] # LParen \/ ts[Len(ts)] # RParen
    THEN [ok |-> FALSE, items |-> <<>>]
    ELSE LET inner == SubSeq(ts, 2, Len(ts) - 1)
             raw == SplitComma(inner)
             items == IF inner = <<>> THEN <<>>
                      ELSE IF raw[Len(raw)] = <<>> THEN SubSeq(raw, 1, Len(raw) - 1)
                      ELSE raw
         IN IF \A i \in 1..Len(items) : IsPath(items[i])
            THEN [ok |-> TRUE, items |-> items]
            ELSE [ok |-> FALSE, items |-> <<>>]

\* syn::parse_str::<Arm>: pattern => call, the whole text consumed
ParseArm(ts) ==
    IF ~Contains(ts, FatArrow) THEN Panic("Failed to generate a variant arm", <<>>)
    ELSE
    LET k == CHOOSE i \in 1..Len(ts) :
                 ts[i] = FatArrow /\ \A j \in 1..(i - 1) : ts[j] # FatArrow
        pat == SubSeq(ts, 1, k - 1)
        body == SubSeq(ts, k + 1, Len(ts))
        pn == PathLen(pat)
        bn == PathLen(body)
        patRest == SubSeq(pat, pn + 1, Len(pat))
        patList == ParseParenList(patRest)
        callList == ParseParenList(SubSeq(body, bn + 1, Len(body)))
    IN IF /\ pn > 0
          /\ (patRest = <<>> \/ patList.ok)
          /\ bn > 0
          /\ callList.ok
       THEN Ok([pat |-> [path |-> SubSeq(pat, 1, pn),
                         tuple |-> patRest # <<>>,
                         elems |-> patList.items],
                target |-> SubSeq(body, 1, bn),
                args |-> callList.items])
       ELSE Panic("Failed to generate a variant arm", <<>>)

\* syn::parse_str::<Ident>: exactly one identifier
ParseIdent(ts) == Len(ts) = 1 /\ IsIdent(ts[1])

\* ---- base_derive_macro ----------------------------------------------------
\* attrs.filter(|attr| attr.path.get_ident() == name)
AttrsNamed(attrs, name) == SelectSeq(attrs, LAMBDA a : a.path = name)

\* a faulty count test: only a missing annotation is refused
BadHandlerCountZero(n) == n = 0

\* handler_attrs.len() != 1
BadHandlerCount(n) == n # 1

\* token[1..token.len() - 1]: the text between the parentheses
Payload(tokens) == SubSeq(tokens, 2, Len(tokens) - 1)

\* a faulty resolution: every handler text is prefixed
handler_name_prefixed(enum_ident, s) == <<enum_ident, ColonColon>> \o s

handler_name(enum_ident, s) ==
    IF Contains(s, ColonColon) THEN s ELSE <<enum_ident, ColonColon>> \o s

\* faulty placeholders: positions counted from 0
field_placeholders_zero(fields) ==
    [i \in 1..Len(fields) |->
        IF fields[i].named THEN <<fields[i].ident>> ELSE <<Id("__", i - 1)>>]

field_placeholders(fields) ==
    [i \in 1..Len(fields) |->
        IF fields[i].named THEN <<fields[i].ident>> ELSE <<Id("__", (i - 1) + 1)>>]

handler_pipeline_arg(o) ==
    CASE o.kind = "None"        -> <<>>
      [] o.kind = "RefParam"    -> <<o.ident>>
      [] o.kind = "RefMutParam" -> <<o.ident>>

arm_text(enum_ident, variant_ident, placeholders, name, pipeline_arg) ==
    IF Len(placeholders) = 0
    THEN <<enum_ident, ColonColon, variant_ident, FatArrow>> \o name
            \o <<LParen>> \o pipeline_arg \o <<RParen>>
    ELSE LET pl == Join(placeholders)
             pl_with_arg == Append(placeholders, pipeline_arg)
         IN <<enum_ident, ColonColon, variant_ident, LParen>> \o pl \o <<RParen, FatArrow>>
               \o name \o <<LParen>> \o Join(pl_with_arg) \o <<RParen>>

\* the closure of variants.into_iter().map(..)
VariantArm(enum_ident, variant, o) ==
    LET handler_attrs == AttrsNamed(variant.attrs, HANDLER_ATTR_NAME)
    IN IF BadHandlerCount(Len(handler_attrs))
       THEN Panic("Variant {} is missing attribute #[handler(your_handler_function)]",
                  <<variant.ident>>)
       ELSE ParseArm(arm_text(enum_ident, variant.ident,
                              field_placeholders(variant.fields),
                              handler_name(enum_ident, Payload(handler_attrs[1].tokens)),
                              handler_pipeline_arg(o)))

\* a faulty collect: the arms in reverse
CollectArmsRev(results) ==
    [i \in 1..Len(results) |-> results[Len(results) + 1 - i].val[1]]

\* .collect::<Vec<Arm>>(): the arms in the variants' order
CollectArms(results) == [i \in 1..Len(results) |-> results[i].val[1]]

base_derive_macro(inp, o) ==
    IF inp.data # "enum" THEN Panic("Only enum types are supported", <<>>)
    ELSE LET results == [i \in 1..Len(inp.variants) |->
                            VariantArm(inp.ident, inp.variants[i], o)]
             bad == { i \in 1..Len(results) : ~results[i].ok }
         IN IF bad # {}
            THEN results[CHOOSE i \in bad : \A j \in bad : i <= j]
            ELSE Ok(CollectArms(results))

\* arg_type_attrs.len() != 1
BadArgTypeCount(n) == n # 1

parse_argtype(attrs, ident) ==
    LET arg_type_attrs == AttrsNamed(attrs, ARG_ATTR_NAME)
    IN IF BadArgTypeCount(Len(arg_type_attrs))
       THEN Panic("Enum {} is missing attribute #[argtype(your_arg_type)]", <<ident>>)
       ELSE LET arg_type_name == Payload(arg_type_attrs[1].tokens)
            IN IF ParseIdent(arg_type_name)
               THEN Ok(arg_type_name)
               ELSE Panic("Failed to parse argtype attribute on Enum {}", <<ident>>)

Impl(trait, self_ty, arg_ty, fn, ref, arms) ==
    [trait |-> trait, self_ty |-> self_ty, arg_ty |-> arg_ty,
     fn |-> fn, ref |-> ref, arms |-> arms]

execute_derive_macro(inp) ==
    LET matcher == base_derive_macro(inp, OptsNone)
    IN IF ~matcher.ok THEN matcher
       ELSE Ok(Impl("Execute", inp.ident, <<>>, "execute", "", matcher.val[1]))

execute_with_derive_macro(inp) ==
    LET arg_type == parse_argtype(inp.attrs, inp.ident)
        matcher == base_derive_macro(inp, RefParam(Tok("args")))
    IN IF ~arg_type.ok THEN arg_type
       ELSE IF ~matcher.ok THEN matcher
       ELSE Ok(Impl("ExecuteWith", inp.ident, arg_type.val[1], "execute_with", "&",
                    matcher.val[1]))

execute_with_mut_derive_macro(inp) ==
    LET arg_type == parse_argtype(inp.attrs, inp.ident)
        matcher == base_derive_macro(inp, RefMutParam(Tok("args")))
    IN IF ~arg_type.ok THEN arg_type
       ELSE IF ~matcher.ok THEN matcher
       ELSE Ok(Impl("ExecuteWithMut", inp.ident, arg_type.val[1], "execute_with_mut",
                    "&mut", matcher.val[1]))

\* ---- the emitted match, as the compiler and the running program treat it --
\* a value of variant i: its j-th field holds 10 * i + j
ValueOf(i, variant) ==
    [variant |-> variant.ident,
     vals |-> [j \in 1..Len(variant.fields) |-> <<"val", 10 * i + j>>]]

\* an arm's pattern fits the declaration of the variant it names: a path for a
\* unit variant, a tuple pattern of the same arity for a tuple variant; a
\* struct variant takes a struct pattern only
PatternFits(arm, enum_ident, variant) ==
    /\ arm.pat.path = <<enum_ident, ColonColon, variant.ident>>
    /\ IF variant.fields = <<>> THEN ~arm.pat.tuple
       ELSE /\ \A j \in 1..Len(variant.fields) : ~variant.fields[j].named
            /\ arm.pat.tuple
            /\ Len(arm.pat.elems) = Len(variant.fields)

\* the match type-checks: every arm fits a variant and every variant has an arm
MatchCompiles(impl, inp) ==
    /\ \A a \in 1..Len(impl.arms) : \E i \in 1..Len(inp.variants) :
           PatternFits(impl.arms[a], inp.ident, inp.variants[i])
    /\ \A i \in 1..Len(inp.variants) : \E a \in 1..Len(impl.arms) :
           PatternFits(impl.arms[a], inp.ident, inp.variants[i])

\* the value an argument expression has under the arm's bindings
ArgValue(arm, expr, vals) ==
    IF \E j \in 1..Len(arm.pat.elems) : arm.pat.elems[j] = expr
    THEN vals[CHOOSE j \in 1..Len(arm.pat.elems) : arm.pat.elems[j] = expr]
    ELSE <<"ref", 0>>

\* match self { arms }: the calls made for one value (none when the match does
\* not compile)
Dispatch(impl, inp, value) ==
    IF ~MatchCompiles(impl, inp) THEN <<>>
    ELSE LET hit == { a \in 1..Len(impl.arms) :
                        impl.arms[a].pat.path[3] = value.variant }
             a == CHOOSE x \in hit : \A y \in hit : x <= y
             arm == impl.arms[a]
         IN <<[target |-> arm.target,
               args |-> [k \in 1..Len(arm.args) |-> ArgValue(arm, arm.args[k], value.vals)]]>>

\* ---- actions --------------------------------------------------------------
InitGen ==
    /\ input \in DeriveInputs
    /\ gst = "idle"
    /\ opts = "none"
    /\ output = <<>>
    /\ diag = <<>>
    /\ calls = <<>>
    \* no pipeline running
    /\ family = "Void"
    /\ pipeline = <<>>
    /\ iter = <<>>
    /\ heap = [a \in Addrs |-> Arg0]
    /\ argp = 0
    /\ statics = Statics0
    /\ log = <<>>
    /\ rpc = "off"


\* what a derive does with the result of its macro function: the tokens go
\* back to the compiler, a panic aborts the derive
Emit(r, mode) ==
    /\ gst = "idle"
    /\ opts' = mode
    /\ gst' = IF r.ok THEN "generated" ELSE "panicked"
    /\ output' = r.val
    /\ diag' = r.msg
    /\ UNCHANGED <<input, calls>>
    /\ UNCHANGED runVars

\* #[proc_macro_derive(Execute, attributes(handler))]
derive_execute == Emit(execute_derive_macro(input), "None")

\* #[proc_macro_derive(ExecuteWith, attributes(handler, execute_with))]
derive_execute_with == Emit(execute_with_derive_macro(input), "RefParam")

\* #[proc_macro_derive(ExecuteWithMut, attributes(handler, execute_with))]
derive_execute_with_mut == Emit(execute_with_mut_derive_macro(input), "RefMutParam")

\* a value consumed through the emitted fn: match self { .. }
Consume ==
    /\ gst = "generated"
    /\ MatchCompiles(output[1], input)
    /\ \E i \in 1..Len(input.variants) :
          calls' = Dispatch(output[1], input, ValueOf(i, input.variants[i]))
    /\ gst' = "consumed"
    /\ UNCHANGED <<input, opts, output, diag>>
    /\ UNCHANGED runVars

NextGen ==
    \/ derive_execute
    \/ derive_execute_with
    \/ derive_execute_with_mut
    \/ Consume

SpecGen == InitGen /\ [][NextGen]_vars

(***************************************************************************)
(* PROPERTIES                                                              *)
(***************************************************************************)
InitHeap == [a \in Addrs |-> Arg0]
LogItems == [i \in 1..Len(log) |-> log[i].item]

\* the handler each variant designates (annotations and match arms of lib.rs)
DesignatedHandler(fam, v) ==
    CASE fam \in {"Void", "RefData"} /\ v = "One" -> "handle_one"
      [] fam \in {"Void", "RefData"} /\ v = "Two" -> "handle_two"
      [] v = "Allocate" -> "alloc"
      [] v = "Init" -> "init"
      [] OTHER -> "run"

\* C1: executing a sequence invokes the elements' handlers in sequence order,
\* exactly once each: at every moment the handlers invoked so far are those of
\* a prefix of the sequence, followed by the items still to come; when the
\* execution has returned every element's handler has run; the empty sequence
\* invokes none.
C1_SequenceOrder ==
    /\ rpc = "idle" => log = <<>>
    /\ rpc \in {"for_each", "done"} => LogItems \o iter = pipeline
    /\ rpc = "done" => LogItems = pipeline
    /\ \A i \in 1..Len(log) : log[i].h = DesignatedHandler(family, log[i].item.v)

C1_Witness ==
    /\ rpc = "done"
    /\ Len(log) >= 3
    /\ log[1].item # log[2].item

\* left-to-right fold of the execute_with_mut handlers over a heap
RECURSIVE FoldMut(_, _, _)
FoldMut(items, ref, hp) ==
    IF items = <<>> THEN hp
    ELSE FoldMut(Tail(items), ref, MutOpsExecuteWithMut(Head(items), ref, hp, Statics0).heap)

\* C2: in a sequence run through execute_with_mut each handler observes the
\* argument as the earlier handlers left it, and the final argument is the
\* left-to-right fold of the handlers over the initial argument.
C2_ExclusiveFold ==
    family = "MutOps" =>
        /\ \A i \in 1..Len(log) :
              log[i].seen = FoldMut(SubSeq(pipeline, 1, i - 1), argp, InitHeap)[argp]
        /\ rpc = "done" => heap = FoldMut(pipeline, argp, InitHeap)

C2_Witness ==
    /\ family = "MutOps"
    /\ rpc = "done"
    /\ Len(pipeline) = 3
    /\ heap[argp].acc = 10
    /\ log[3].seen.acc = 5

\* C3 as stated: every handler of a sequence run through execute_with receives
\* the same reference and observes the same value, and the argument is
\* unchanged after the sequence has executed.
C3_Original ==
    family \in {"RefData", "CellOps"} =>
        /\ \A i \in 1..Len(log) : log[i].ref = argp /\ log[i].seen = Arg0
        /\ rpc = "done" => heap[argp] = Arg0

\* left-to-right fold of the RefCell handlers over a heap
RECURSIVE FoldCell(_, _, _)
FoldCell(items, ref, hp) ==
    IF items = <<>> THEN hp
    ELSE FoldCell(Tail(items), ref, CellOpsExecuteWith(Head(items), ref, hp, Statics0).heap)

\* C3 amended: every handler of a sequence run through execute_with receives
\* the same reference; for an argument without interior mutability every
\* handler observes the same value and the argument is unchanged afterwards;
\* for an argument with interior mutability (RefCell) a handler may change it
\* and the later handlers observe the change.
C3_SharedArgument ==
    family \in {"RefData", "CellOps"} =>
        /\ \A i \in 1..Len(log) : log[i].ref = argp
        /\ family = "RefData" =>
              /\ \A i \in 1..Len(log) : log[i].seen = Arg0
              /\ heap = InitHeap
        /\ family = "CellOps" =>
              \A i \in 1..Len(log) :
                  log[i].seen = FoldCell(SubSeq(pipeline, 1, i - 1), argp, InitHeap)[argp]

C3_Witness ==
    /\ family = "RefData"
    /\ rpc = "done"
    /\ Len(log) >= 2
    /\ statics.one = 48

Generated == gst \in {"generated", "consumed"}

Count(attrs, name) == Cardinality({ k \in 1..Len(attrs) : attrs[k].path = name })

\* the text written between the parentheses of the variant's handler annotation
AnnotationText(variant) ==
    LET k == CHOOSE j \in 1..Len(variant.attrs) : variant.attrs[j].path = "handler"
        t == variant.attrs[k].tokens
    IN SubSeq(t, 2, Len(t) - 1)

ExpectedTarget(variant) ==
    IF \E k \in 1..Len(AnnotationText(variant)) : AnnotationText(variant)[k] = Tok("::")
    THEN AnnotationText(variant)
    ELSE <<input.ident, Tok("::")>> \o AnnotationText(variant)

ExtraArg == IF opts = "None" THEN <<>> ELSE <<Tok("args")>>

\* C4 as stated: a value of variant V consumed through the generated function
\* makes exactly one call, to the handler V's annotation designates, with V's
\* field values in order (followed by the argument reference in the argument
\* taking modes).
C4_Original ==
    Generated =>
        \A i \in 1..Len(input.variants) :
            Dispatch(output[1], input, ValueOf(i, input.variants[i]))
              = <<[target |-> ExpectedTarget(input.variants[i]),
                   args |-> ValueOf(i, input.variants[i]).vals
                              \o (IF opts = "None" THEN <<>> ELSE <<<<"ref", 0>>>>)]>>

\* C5: the generated match has exactly one arm per variant, in declared order,
\* every arm's pattern naming its own variant of the enum (so the patterns are
\* pairwise distinct) and none being a wildcard.
C5_OneArmPerVariant ==
    Generated =>
        LET arms == output[1].arms IN
        /\ Len(arms) = Len(input.variants)
        /\ \A i \in 1..Len(arms) :
              /\ arms[i].pat.path = <<input.ident, Tok("::"), input.variants[i].ident>>
              /\ arms[i].pat.path # <<Tok("_")>>
        /\ \A i, j \in 1..Len(arms) : i # j => arms[i].pat.path # arms[j].pat.path

C5_Witness ==
    /\ gst = "generated"
    /\ Len(input.variants) >= 2
    /\ input.variants[1].fields # <<>>

\* the binding the claim names for field j: its own name, or __<position>
Binding(fields, j) == IF fields[j].named THEN <<fields[j].ident>> ELSE <<<<"__", j>>>>

\* C6: the call's argument list is the n field bindings in declared order,
\* followed by the extra argument exactly when the mode is not None: n
\* arguments in mode None, n + 1 otherwise.
C6_CallArguments ==
    Generated =>
        \A i \in 1..Len(input.variants) :
            LET fields == input.variants[i].fields
                args == output[1].arms[i].args
            IN /\ args = [j \in 1..Len(fields) |-> Binding(fields, j)]
                           \o (IF opts = "None" THEN <<>> ELSE <<ExtraArg>>)
               /\ Len(args) = Len(fields) + (IF opts = "None" THEN 0 ELSE 1)

C6_Witness ==
    /\ gst = "generated"
    /\ opts = "None"
    /\ \E i \in 1..Len(input.variants) : input.variants[i].fields = <<>>
    /\ \E i \in 1..Len(input.variants) :
          /\ Len(input.variants[i].fields) >= 2
          /\ ~input.variants[i].fields[1].named

\* C7: an annotation text without a path separator resolves to E::text, one
\* with a path separator is the call target verbatim.
C7_HandlerResolution ==
    Generated =>
        \A i \in 1..Len(input.variants) :
            output[1].arms[i].target = ExpectedTarget(input.variants[i])

C7_Witness ==
    /\ gst = "generated"
    /\ \E i \in 1..Len(input.variants) :
          output[1].arms[i].target = <<Tok("E"), Tok("::"), <<"h", i>>>>
    /\ \E i \in 1..Len(input.variants) :
          output[1].arms[i].target = <<Tok("m"), Tok("::"), <<"g", i>>>>

\* the input breaks one of the rules of the claim
ViolatesRule ==
    \/ input.data # "enum"
    \/ \E i \in 1..Len(input.variants) : Count(input.variants[i].attrs, "handler") # 1
    \/ opts \in {"RefParam", "RefMutParam"} /\ Count(input.attrs, "execute_with") # 1

\* C8: a derive over an input with a variant carrying 0 or >= 2 handler
\* annotations, or (argument taking modes) an enum carrying 0 or >= 2
\* execute_with annotations, or over a non-enum, panics with a diagnostic and
\* emits nothing; no failed derive emits anything.
C8_FailsWithoutOutput ==
    /\ (gst # "idle" /\ ViolatesRule) => (gst = "panicked" /\ diag # <<>>)
    /\ gst = "panicked" => output = <<>>

C8_Witness ==
    /\ gst = "panicked"
    /\ Len(input.variants) = 2
    /\ Count(input.variants[1].attrs, "handler") = 1
    /\ Count(input.variants[2].attrs, "handler") = 2
    /\ output = <<>>

\* the rule a panic message states
RuleOf(text) ==
    CASE text = "Only enum types are supported" -> "NotAnEnum"
      [] text = "Variant {} is missing attribute #[handler(your_handler_function)]"
            -> "MissingHandlerAnnotation"
      [] text = "Enum {} is missing attribute #[argtype(your_arg_type)]"
            -> "MissingOrDuplicateArgumentType"
      [] text = "Failed to parse argtype attribute on Enum {}" -> "UnparseableArgumentType"
      [] OTHER -> "ArmSynthesisFailure"

\* the text written between the parentheses of the enum's execute_with annotation
ArgTypeText ==
    LET k == CHOOSE j \in 1..Len(input.attrs) : input.attrs[j].path = "execute_with"
        t == input.attrs[k].tokens
    IN SubSeq(t, 2, Len(t) - 1)

\* the rules the input breaks, each with the name of the offender
ActualViolations ==
    (IF input.data # "enum" THEN {<<"NotAnEnum", <<>>>>} ELSE {})
    \cup { <<"MissingHandlerAnnotation", <<input.variants[i].ident>>>> :
             i \in { k \in 1..Len(input.variants) :
                       Count(input.variants[k].attrs, "handler") = 0 } }
    \cup { <<"DuplicateHandlerAnnotation", <<input.variants[i].ident>>>> :
             i \in { k \in 1..Len(input.variants) :
                       Count(input.variants[k].attrs, "handler") >= 2 } }
    \cup { <<"ArmSynthesisFailure", <<input.variants[i].ident>>>> :
             i \in { k \in 1..Len(input.variants) :
                       /\ Count(input.variants[k].attrs, "handler") = 1
                       /\ ~IsPath(AnnotationText(input.variants[k])) } }
    \cup (IF /\ opts \in {"RefParam", "RefMutParam"}
             /\ Count(input.attrs, "execute_with") # 1
          THEN {<<"MissingOrDuplicateArgumentType", <<input.ident>>>>} ELSE {})
    \cup (IF /\ opts \in {"RefParam", "RefMutParam"}
             /\ Count(input.attrs, "execute_with") = 1
             /\ ~IsPath(ArgTypeText)
          THEN {<<"UnparseableArgumentType", <<input.ident>>>>} ELSE {})

\* C9 as stated: the diagnostic of a failed derive names the rule the input
\* breaks and the enum or variant that breaks it (missing and duplicate handler
\* annotations being told apart).
C9_Original ==
    gst = "panicked" =>
        <<RuleOf(diag[1].text), diag[1].name>> \in ActualViolations

\* C10 as stated: with exactly one execute_with annotation whose text is a type
\* path (an identifier or a ::-qualified path), an argument taking derive does
\* not fail on that annotation, and what it emits uses the text verbatim as
\* the argument type.
C10_Original ==
    (/\ gst # "idle"
     /\ opts \in {"RefParam", "RefMutParam"}
     /\ Count(input.attrs, "execute_with") = 1
     /\ IsPath(ArgTypeText)) =>
        /\ gst = "panicked" =>
              diag[1].text \notin
                 { "Enum {} is missing attribute #[argtype(your_arg_type)]",
                   "Failed to parse argtype attribute on Enum {}" }
        /\ Generated => output[1].arg_ty = ArgTypeText

====
